---------------------------- MODULE Spec2Model ----------------------------
(***************************************************************************)
(* Graph model (graph.js) and stepper (app.js) of the biconnected          *)
(* components visualizer: the Graph class with its mutation operations,    *)
(* Tarjan's analysis in its plain and its instrumented form, and the       *)
(* replay of a trace by applyStepsUpTo.                                    *)
(*                                                                         *)
(* A JS Set is modelled as the sequence of its members in insertion order  *)
(* (the order `for (const v of set)` iterates in), a JS Map keyed by       *)
(* strings as the sequence of its entries in insertion order, and the Map  *)
(* adj, whose iteration order no code depends on, as a function.  The key  *)
(* strings `${a}-${b}` and `${a}>${b}` are the tuples <<"-", a, b>> and    *)
(* <<">", a, b>>.  Node coordinates are left out: no operation modelled    *)
(* here reads them.                                                        *)
(***************************************************************************)
EXTENDS Integers, Sequences, FiniteSets, TLC

VARIABLES
  graph,          \* the Graph object: nodes, adj, nextId, edgeMap
  op,             \* the operation or handler that ran last
  ret,            \* what it returned (or threw)
  currentSteps,   \* app.js stepper state
  currentResult,
  stepIndex,
  playInterval,   \* the interval id held by app.js, 0 for null
  timers,         \* the interval timers that are set and not cleared
  view,           \* the locals of the last applyStepsUpTo, as handed to render
  traceStates,    \* history: the traversal state behind each step of currentSteps
  selected,       \* app.js selected: {} for null, {id} for a selected node id
  quiet           \* environment: TRUE once the user has stopped giving input

vars == <<graph, op, ret, currentSteps, currentResult, stepIndex, playInterval,
          timers, view, traceStates, selected, quiet>>

(* Bounds of the model *)
MaxId == 2
MaxNodes == 3
MaxEdges == 2
MaxRandN == 5
MaxPlayN == 3
MaxTimers == 2
MaxUIN == 2

\* ids a caller may pass: one negative id stands for the negative integers
IdRange == (-1)..MaxId

Min(a, b) == IF a <= b THEN a ELSE b
Max(a, b) == IF a >= b THEN a ELSE b

Range(s) == {s[i] : i \in 1..Len(s)}

(* ---------------- JS Set, in insertion order ---------------- *)
SetHas(s, x) == \E i \in 1..Len(s) : s[i] = x
SetAdd(s, x) == IF SetHas(s, x) THEN s ELSE Append(s, x)
SetDelete(s, x) == SelectSeq(s, LAMBDA y : y # x)

(* ---------------- JS Map of edges, in insertion order ---------------- *)
MapHas(m, k) == \E i \in 1..Len(m) : m[i].key = k
MapGet(m, k) == m[CHOOSE i \in 1..Len(m) : m[i].key = k]
MapSet(m, k, e) ==
  IF MapHas(m, k)
  THEN [i \in 1..Len(m) |-> IF m[i].key = k THEN e ELSE m[i]]
  ELSE Append(m, e)
MapDelete(m, k) == SelectSeq(m, LAMBDA e : e.key # k)

\* adj.set(id, s) and adj.delete(id)
AdjSet(adj, id, s) == [k \in (DOMAIN adj) \cup {id} |-> IF k = id THEN s ELSE adj[k]]
AdjDelete(adj, id) == [k \in (DOMAIN adj) \ {id} |-> adj[k]]

undirKey(a, b) == <<"-", Min(a, b), Max(a, b)>>
dirKey(a, b) == <<">", a, b>>
edgeKey(a, b) == <<"-", Min(a, b), Max(a, b)>>

Entry(k, a, b, d) == [key |-> k, a |-> a, b |-> b, directed |-> d]

NodeIds(g) == Range(g.nodes)

(* ---------------- constructor ---------------- *)
NewGraph == [nodes |-> <<>>, adj |-> <<>>, nextId |-> 0, edgeMap |-> <<>>]

(* Every operation yields the graph it leaves and what it returns: the     *)
(* value, or the TypeError thrown half way (`adj.get(a)` undefined), which *)
(* leaves the mutations made before it.                                    *)
\* JS undefined and null, as values TLC can compare with a Result record
Undefined == <<>>
Null == <<>>

Out(g, r) == [g |-> g, ret |-> [threw |-> FALSE, val |-> r]]
Throw(g) == [g |-> g, ret |-> [threw |-> TRUE, val |-> "TypeError"]]

\* renameNode with the last statement (nextId = max(nextId, newId + 1)) left out
renameNextId_keep(g, newId) == g.nextId

\* this.nextId = Math.max(this.nextId, newId + 1)
renameNextId(g, newId) == Max(g.nextId, newId + 1)

addNode(g) ==
  LET id == g.nextId
  IN Out([g EXCEPT !.nodes = Append(@, id),
                   !.adj = AdjSet(@, id, <<>>),
                   !.nextId = id + 1], id)

\* addEdge with the second add left out: this.adj.get(a).add(b) only
AdjAddBoth_oneSide(g, a, b) ==
  IF a \notin DOMAIN g.adj THEN Throw(g)
  ELSE Out([g EXCEPT !.adj[a] = SetAdd(@, b)], TRUE)

\* this.adj.get(a).add(b); this.adj.get(b).add(a);
AdjAddBoth(g, a, b) ==
  IF a \notin DOMAIN g.adj THEN Throw(g)
  ELSE LET g1 == [g EXCEPT !.adj[a] = SetAdd(@, b)]
       IN IF b \notin DOMAIN g1.adj THEN Throw(g1)
          ELSE Out([g1 EXCEPT !.adj[b] = SetAdd(@, a)], TRUE)

\* addEdge without its first statement (if (a === b) return false)
addEdgeSelfLoop_none(a, b) == FALSE

\* if (a === b) return false;
addEdgeSelfLoop(a, b) == a = b

addEdgeKey(a, b, directed) == IF directed THEN dirKey(a, b) ELSE undirKey(a, b)

addEdge(g, a, b, directed) ==
  IF addEdgeSelfLoop(a, b) THEN Out(g, FALSE)
  ELSE LET key == addEdgeKey(a, b, directed)
       IN IF MapHas(g.edgeMap, key) THEN Out(g, FALSE)
          ELSE LET e == IF directed THEN Entry(key, a, b, TRUE)
                        ELSE Entry(key, Min(a, b), Max(a, b), FALSE)
               IN AdjAddBoth([g EXCEPT !.edgeMap = MapSet(@, key, e)], a, b)

\* this.adj.get(a).delete(b); this.adj.get(b).delete(a);
AdjDeleteBoth(g, a, b) ==
  IF a \notin DOMAIN g.adj THEN Throw(g)
  ELSE LET g1 == [g EXCEPT !.adj[a] = SetDelete(@, b)]
       IN IF b \notin DOMAIN g1.adj THEN Throw(g1)
          ELSE Out([g1 EXCEPT !.adj[b] = SetDelete(@, a)], TRUE)

deleteEdge(g, a, b, directed) ==
  LET key == IF directed THEN dirKey(a, b) ELSE undirKey(a, b)
  IN IF ~MapHas(g.edgeMap, key) THEN Out(g, FALSE)
     ELSE AdjDeleteBoth([g EXCEPT !.edgeMap = MapDelete(@, key)], a, b)

deleteEdgeByKey(g, key) ==
  IF ~MapHas(g.edgeMap, key) THEN Out(g, FALSE)
  ELSE LET e == MapGet(g.edgeMap, key)
           g1 == [g EXCEPT !.edgeMap = MapDelete(@, key)]
           g2 == IF e.a \in DOMAIN g1.adj
                 THEN [g1 EXCEPT !.adj[e.a] = SetDelete(@, e.b)] ELSE g1
           g3 == IF e.b \in DOMAIN g2.adj
                 THEN [g2 EXCEPT !.adj[e.b] = SetDelete(@, e.a)] ELSE g2
       IN Out(g3, TRUE)

\* deleteNode with the cascade over edgeMap left out
deleteNode_keepEdges(g, id) ==
  LET adj1 == AdjDelete(g.adj, id)
  IN Out([g EXCEPT !.nodes = SelectSeq(@, LAMBDA n : n # id),
                   !.adj = [k \in DOMAIN adj1 |-> SetDelete(adj1[k], id)]],
         TRUE)

deleteNode(g, id) ==
  LET adj1 == AdjDelete(g.adj, id)
  IN Out([g EXCEPT !.nodes = SelectSeq(@, LAMBDA n : n # id),
                   !.adj = [k \in DOMAIN adj1 |-> SetDelete(adj1[k], id)],
                   !.edgeMap = SelectSeq(@, LAMBDA e : ~(e.a = id \/ e.b = id))],
         TRUE)

\* the loop of renameNode that rebuilds edgeMap, entry by entry
RECURSIVE RebuildEdges(_, _, _, _, _)
RebuildEdges(m, i, oldId, newId, acc) ==
  IF i > Len(m) THEN acc
  ELSE LET a == IF m[i].a = oldId THEN newId ELSE m[i].a
           b == IF m[i].b = oldId THEN newId ELSE m[i].b
           e == IF m[i].directed
                THEN Entry(dirKey(a, b), a, b, TRUE)
                ELSE Entry(undirKey(a, b), Min(a, b), Max(a, b), FALSE)
       IN RebuildEdges(m, i + 1, oldId, newId, MapSet(acc, e.key, e))

\* the conflict test made only when oldId is a node
renameConflict_knownOld(g, oldId, newId) == newId \in NodeIds(g) /\ oldId \in NodeIds(g)

renameConflict(g, oldId, newId) == newId \in NodeIds(g)

renameNode(g, oldId, newId) ==
  IF oldId = newId THEN Out(g, TRUE)
  ELSE IF renameConflict(g, oldId, newId) THEN Out(g, FALSE)
  ELSE
    LET nodes1 == [i \in 1..Len(g.nodes) |->
                     IF g.nodes[i] = oldId THEN newId ELSE g.nodes[i]]
        oldNeighbors == IF oldId \in DOMAIN g.adj THEN g.adj[oldId] ELSE <<>>
        adj1 == AdjSet(AdjDelete(g.adj, oldId), newId, oldNeighbors)
        adj2 == [k \in DOMAIN adj1 |->
                   IF k # newId /\ SetHas(adj1[k], oldId)
                   THEN SetAdd(SetDelete(adj1[k], oldId), newId)
                   ELSE adj1[k]]
    IN Out([nodes |-> nodes1, adj |-> adj2,
            nextId |-> renameNextId(g, newId),
            edgeMap |-> RebuildEdges(g.edgeMap, 1, oldId, newId, <<>>)], TRUE)

clear(g) == Out(NewGraph, Undefined)

(***************************************************************************)
(* Tarjan: analyze().  disc, low and parent are arrays of length nextId;   *)
(* reading an array at an index outside 0..nextId-1 yields undefined, and  *)
(* undefined === -1 and undefined < n are both false.                      *)
(***************************************************************************)
NewArray(n, x) == [i \in 0..(n - 1) |-> x]
DiscIsUnset(st, v) == v \in DOMAIN st.disc /\ st.disc[v] = -1
DiscLess(st, v, u) == v \in DOMAIN st.disc /\ st.disc[v] < st.disc[u]

\* while (edgeStack.length) { pop; push; add; add; if (e is (u,v)) break; }
RECURSIVE popUntil(_, _, _, _, _)
popUntil(stack, u, v, compEdges, compVerts) ==
  IF Len(stack) = 0
  THEN [stack |-> stack, edges |-> compEdges, verts |-> compVerts]
  ELSE LET e == stack[Len(stack)]
           rest == SubSeq(stack, 1, Len(stack) - 1)
           ce == Append(compEdges, e)
           cv == SetAdd(SetAdd(compVerts, e[1]), e[2])
       IN IF (e[1] = u /\ e[2] = v) \/ (e[1] = v /\ e[2] = u)
          THEN [stack |-> rest, edges |-> ce, verts |-> cv]
          ELSE popUntil(rest, u, v, ce, cv)

\* while (edgeStack.length) { pop; push; add; add; }
RECURSIVE popAll(_, _, _)
popAll(stack, compEdges, compVerts) ==
  IF Len(stack) = 0
  THEN [stack |-> stack, edges |-> compEdges, verts |-> compVerts]
  ELSE LET e == stack[Len(stack)]
       IN popAll(SubSeq(stack, 1, Len(stack) - 1), Append(compEdges, e),
                 SetAdd(SetAdd(compVerts, e[1]), e[2]))

isRoot(st, u) == st.parent[u] = -1

apRule(st, u, v, children) ==
  (isRoot(st, u) /\ children > 1) \/ (~isRoot(st, u) /\ st.low[v] >= st.disc[u])

bridgeRule(st, u, v) == st.low[v] > st.disc[u]

\* the component-close test with > for >=, in the plain copy only
closeRule_gt(st, u, v) == st.low[v] > st.disc[u]

closeRule(st, u, v) == st.low[v] >= st.disc[u]

isBackEdge(st, u, v) == v # st.parent[u] /\ DiscLess(st, v, u)

\* the statements of dfs after the recursive call returns (lines 178-201)
afterChild(st, u, v, children) ==
  LET s1 == [st EXCEPT !.low[u] = Min(st.low[u], st.low[v])]
      s2 == IF apRule(s1, u, v, children) THEN [s1 EXCEPT !.ap = SetAdd(@, u)] ELSE s1
      s3 == IF bridgeRule(s2, u, v)
            THEN [s2 EXCEPT !.bridges = Append(@, <<u, v>>)] ELSE s2
  IN IF closeRule(s3, u, v)
     THEN LET p == popUntil(s3.edgeStack, u, v, <<>>, <<>>)
          IN IF Len(p.edges) > 0
             THEN [s3 EXCEPT !.edgeStack = p.stack,
                             !.components = Append(@, [edges |-> p.edges, verts |-> p.verts])]
             ELSE [s3 EXCEPT !.edgeStack = p.stack]
     ELSE s3

RECURSIVE dfs(_, _, _)
RECURSIVE dfsLoop(_, _, _, _, _)
dfs(g, u, st) ==
  dfsLoop(g, u, 1, 0, [st EXCEPT !.time = st.time + 1,
                                 !.disc[u] = st.time + 1,
                                 !.low[u] = st.time + 1])

dfsLoop(g, u, i, children, st) ==
  LET neighbors == IF u \in DOMAIN g.adj THEN g.adj[u] ELSE <<>>
  IN IF i > Len(neighbors) THEN st
     ELSE LET v == neighbors[i]
          IN IF v \notin NodeIds(g) THEN dfsLoop(g, u, i + 1, children, st)
             ELSE IF DiscIsUnset(st, v)
             THEN LET s1 == [st EXCEPT !.parent[v] = u,
                                       !.edgeStack = Append(@, <<u, v>>)]
                      s2 == dfs(g, v, s1)
                  IN dfsLoop(g, u, i + 1, children + 1,
                             afterChild(s2, u, v, children + 1))
             ELSE IF isBackEdge(st, u, v)
             THEN dfsLoop(g, u, i + 1, children,
                          [st EXCEPT !.edgeStack = Append(@, <<u, v>>),
                                     !.low[u] = Min(st.low[u], st.disc[v])])
             ELSE dfsLoop(g, u, i + 1, children, st)

\* after finishing a component root, any remaining edges form a component
residual(st) ==
  IF Len(st.edgeStack) > 0
  THEN LET p == popAll(st.edgeStack, <<>>, <<>>)
       IN [st EXCEPT !.edgeStack = p.stack,
                     !.components = Append(@, [edges |-> p.edges, verts |-> p.verts])]
  ELSE st

RECURSIVE rootLoop(_, _, _)
rootLoop(g, i, st) ==
  IF i > Len(g.nodes) THEN st
  ELSE IF g.nodes[i] \in DOMAIN st.disc /\ st.disc[g.nodes[i]] = -1
       THEN rootLoop(g, i + 1, residual(dfs(g, g.nodes[i], st)))
       ELSE rootLoop(g, i + 1, st)

\* history of the root loop of analyze(): the edge stack found at line 213,
\* each time dfs(node.id) has returned for a root
RECURSIVE rootReturnStacks(_, _, _, _)
rootReturnStacks(g, i, st, acc) ==
  IF i > Len(g.nodes) THEN acc
  ELSE IF g.nodes[i] \in DOMAIN st.disc /\ st.disc[g.nodes[i]] = -1
       THEN LET s == dfs(g, g.nodes[i], st)
            IN rootReturnStacks(g, i + 1, residual(s), Append(acc, s.edgeStack))
       ELSE rootReturnStacks(g, i + 1, st, acc)

\* components.forEach((c, idx) => { for (const e of c.edges) edgeToComp.set(key(e), idx) })
CompKeys(c) == {edgeKey(c.edges[j][1], c.edges[j][2]) : j \in 1..Len(c.edges)}
buildEdgeToComp(components) ==
  LET n == Len(components)
      keys == UNION {CompKeys(components[c]) : c \in 1..n}
  IN [k \in keys |->
        (CHOOSE c \in 1..n : /\ k \in CompKeys(components[c])
                             /\ \A d \in (c + 1)..n : k \notin CompKeys(components[d])) - 1]

InitTraversal(g) ==
  [disc |-> NewArray(g.nextId, -1), low |-> NewArray(g.nextId, 0),
   parent |-> NewArray(g.nextId, -1), ap |-> <<>>, bridges |-> <<>>,
   components |-> <<>>, edgeStack |-> <<>>, time |-> 0]

ResultOf(st) ==
  [articulationPoints |-> st.ap, bridges |-> st.bridges,
   components |-> st.components, edgeToComp |-> buildEdgeToComp(st.components)]

analyze(g) == ResultOf(rootLoop(g, 1, InitTraversal(g)))

(***************************************************************************)
(* Tarjan with steps: analyzeWithSteps().  The code is a second copy of    *)
(* the traversal, and so is this.  pushStep also records, beside each      *)
(* step, the traversal state it was emitted in (states: which nodes have   *)
(* a discovery time, and the edge stack); the code keeps no such record.   *)
(***************************************************************************)
Visited(st) == {x \in DOMAIN st.disc : st.disc[x] # -1}

pushStep(st, step) ==
  [st EXCEPT !.steps = Append(@, step),
             !.states = Append(@, [visited |-> Visited(st), edgeStack |-> st.edgeStack])]

\* the bridge test with >= for >, in the instrumented copy only
bridgeRuleS_ge(st, u, v) == st.low[v] >= st.disc[u]

bridgeRuleS(st, u, v) == st.low[v] > st.disc[u]

closeRuleS(st, u, v) == st.low[v] >= st.disc[u]

isBackEdgeS(st, u, v) == v # st.parent[u] /\ DiscLess(st, v, u)

\* the popComponent event listing only the edge popped first
emitComponent_firstEdge(st, p) ==
  IF Len(p.edges) > 0
  THEN pushStep([st EXCEPT !.edgeStack = p.stack,
                           !.components = Append(@, [edges |-> p.edges, verts |-> p.verts])],
                [type |-> "popComponent", compIndex |-> Len(st.components),
                 edges |-> <<p.edges[1]>>, verts |-> p.verts])
  ELSE [st EXCEPT !.edgeStack = p.stack]

\* the popComponent event numbered from 1: compIndex = components.length after the push
emitComponent_oneBased(st, p) ==
  IF Len(p.edges) > 0
  THEN pushStep([st EXCEPT !.edgeStack = p.stack,
                           !.components = Append(@, [edges |-> p.edges, verts |-> p.verts])],
                [type |-> "popComponent", compIndex |-> Len(st.components) + 1,
                 edges |-> p.edges, verts |-> p.verts])
  ELSE [st EXCEPT !.edgeStack = p.stack]

emitComponent(st, p) ==
  IF Len(p.edges) > 0
  THEN pushStep([st EXCEPT !.edgeStack = p.stack,
                           !.components = Append(@, [edges |-> p.edges, verts |-> p.verts])],
                [type |-> "popComponent", compIndex |-> Len(st.components),
                 edges |-> p.edges, verts |-> p.verts])
  ELSE [st EXCEPT !.edgeStack = p.stack]

\* the statements of dfs after the recursive call returns (lines 274-297)
afterChildS(st, u, v, children) ==
  LET s1 == pushStep([st EXCEPT !.low[u] = Min(st.low[u], st.low[v])],
                     [type |-> "updateLow", u |-> u,
                      low |-> Min(st.low[u], st.low[v]), child |-> v])
      s2 == IF s1.parent[u] = -1 /\ children > 1
            THEN pushStep([s1 EXCEPT !.ap = SetAdd(@, u)], [type |-> "markAP", u |-> u])
            ELSE s1
      s3 == IF s2.parent[u] # -1 /\ s2.low[v] >= s2.disc[u]
            THEN pushStep([s2 EXCEPT !.ap = SetAdd(@, u)], [type |-> "markAP", u |-> u])
            ELSE s2
      s4 == IF bridgeRuleS(s3, u, v)
            THEN pushStep([s3 EXCEPT !.bridges = Append(@, <<u, v>>)],
                          [type |-> "markBridge", u |-> u, v |-> v])
            ELSE s3
  IN IF closeRuleS(s4, u, v)
     THEN emitComponent(s4, popUntil(s4.edgeStack, u, v, <<>>, <<>>))
     ELSE s4

RECURSIVE dfsS(_, _, _)
RECURSIVE dfsLoopS(_, _, _, _, _)
dfsS(g, u, st) ==
  dfsLoopS(g, u, 1, 0,
           pushStep([st EXCEPT !.time = st.time + 1,
                               !.disc[u] = st.time + 1,
                               !.low[u] = st.time + 1],
                    [type |-> "visit", u |-> u,
                     disc |-> st.time + 1, low |-> st.time + 1]))

dfsLoopS(g, u, i, children, st) ==
  LET neighbors == IF u \in DOMAIN g.adj THEN g.adj[u] ELSE <<>>
  IN IF i > Len(neighbors) THEN st
     ELSE LET v == neighbors[i]
          IN IF v \notin NodeIds(g) THEN dfsLoopS(g, u, i + 1, children, st)
             ELSE IF DiscIsUnset(st, v)
             THEN LET s1 == pushStep([st EXCEPT !.parent[v] = u,
                                                !.edgeStack = Append(@, <<u, v>>)],
                                     [type |-> "pushEdge", u |-> u, v |-> v, back |-> FALSE])
                      s2 == dfsS(g, v, s1)
                  IN dfsLoopS(g, u, i + 1, children + 1,
                              afterChildS(s2, u, v, children + 1))
             ELSE IF isBackEdgeS(st, u, v)
             THEN LET s1 == pushStep([st EXCEPT !.edgeStack = Append(@, <<u, v>>)],
                                     [type |-> "pushEdge", u |-> u, v |-> v, back |-> TRUE])
                      s2 == pushStep([s1 EXCEPT !.low[u] = Min(s1.low[u], s1.disc[v])],
                                     [type |-> "updateLow", u |-> u,
                                      low |-> Min(s1.low[u], s1.disc[v]), backTo |-> v])
                  IN dfsLoopS(g, u, i + 1, children, s2)
             ELSE dfsLoopS(g, u, i + 1, children, st)

residualS(st) ==
  IF Len(st.edgeStack) > 0
  THEN emitComponent(st, popAll(st.edgeStack, <<>>, <<>>))
  ELSE st

RECURSIVE rootLoopS(_, _, _)
rootLoopS(g, i, st) ==
  IF i > Len(g.nodes) THEN st
  ELSE IF g.nodes[i] \in DOMAIN st.disc /\ st.disc[g.nodes[i]] = -1
       THEN rootLoopS(g, i + 1, residualS(dfsS(g, g.nodes[i], st)))
       ELSE rootLoopS(g, i + 1, st)

InitTraversalS(g) ==
  [disc |-> NewArray(g.nextId, -1), low |-> NewArray(g.nextId, 0),
   parent |-> NewArray(g.nextId, -1), ap |-> <<>>, bridges |-> <<>>,
   components |-> <<>>, edgeStack |-> <<>>, time |-> 0,
   steps |-> <<>>, states |-> <<>>]

ResultOfS(st) ==
  [articulationPoints |-> st.ap, bridges |-> st.bridges,
   components |-> st.components, edgeToComp |-> buildEdgeToComp(st.components)]

TraversalWithSteps(g) == rootLoopS(g, 1, InitTraversalS(g))

analyzeWithSteps(g) ==
  LET st == TraversalWithSteps(g)
  IN [result |-> ResultOfS(st), steps |-> st.steps]

(***************************************************************************)
(* Graph.randomGraph(n, p): n nodes, then each pair i < j in loop order    *)
(* gets an undirected edge when Math.random() < p; chosen is the set of    *)
(* pairs for which it was.                                                 *)
(***************************************************************************)
RECURSIVE addNodes(_, _)
addNodes(g, n) == IF n = 0 THEN g ELSE addNodes(addNode(g).g, n - 1)

RECURSIVE randomEdges(_, _, _, _, _)
randomEdges(g, n, i, j, chosen) ==
  IF i >= n THEN g
  ELSE IF j >= n THEN randomEdges(g, n, i + 1, i + 2, chosen)
  ELSE randomEdges(IF <<i, j>> \in chosen THEN addEdge(g, i, j, FALSE).g ELSE g,
                   n, i, j + 1, chosen)

randomGraph(n, chosen) == randomEdges(addNodes(NewGraph, n), n, 0, 1, chosen)

(* ---------------- toJSON / fromJSON ---------------- *)
(* The JSON text is modelled by the value JSON.parse gives back from it:   *)
(* node objects reduced to their id, edge objects {a, b, directed, key};   *)
(* ids are integers, flags booleans, which JSON text carries unchanged.    *)

\* toJSON exporting the edges without their flag: {a, b, key}
toJSON_noFlag(g) ==
  [nodes |-> [i \in 1..Len(g.nodes) |-> [id |-> g.nodes[i]]],
   edges |-> [i \in 1..Len(g.edgeMap) |->
                [a |-> g.edgeMap[i].a, b |-> g.edgeMap[i].b,
                 directed |-> FALSE, key |-> g.edgeMap[i].key]]]

toJSON(g) ==
  [nodes |-> [i \in 1..Len(g.nodes) |-> [id |-> g.nodes[i]]],
   edges |-> [i \in 1..Len(g.edgeMap) |->
                [a |-> g.edgeMap[i].a, b |-> g.edgeMap[i].b,
                 directed |-> g.edgeMap[i].directed, key |-> g.edgeMap[i].key]]]

\* for (const nd of data.nodes) { id = g.addNode(); mapping.set(nd.id, id); }
RECURSIVE importNodes(_, _, _, _)
importNodes(g, mapping, nodes, i) ==
  IF i > Len(nodes) THEN [g |-> g, mapping |-> mapping]
  ELSE LET r == addNode(g)
       IN importNodes(r.g,
                      [k \in (DOMAIN mapping) \cup {nodes[i].id} |->
                         IF k = nodes[i].id THEN r.ret.val ELSE mapping[k]],
                      nodes, i + 1)

\* for (const e of data.edges) { ... if (a !== undefined && b !== undefined) g.addEdge(a, b, directed); }
\* (a and b are ids addNode has just given to g, so addEdge finds both adjacency sets)
RECURSIVE importEdges(_, _, _, _)
importEdges(g, mapping, edges, i) ==
  IF i > Len(edges) THEN g
  ELSE LET e == edges[i]
       IN importEdges(IF e.a \in DOMAIN mapping /\ e.b \in DOMAIN mapping
                      THEN addEdge(g, mapping[e.a], mapping[e.b], e.directed).g
                      ELSE g,
                      mapping, edges, i + 1)

fromJSON(data) ==
  LET g0 == clear(NewGraph).g
      r == importNodes(g0, <<>>, data.nodes, 1)
  IN importEdges(r.g, r.mapping, data.edges, 1)

Pairs(n) == {<<i, j>> \in (0..(n - 1)) \X (0..(n - 1)) : i < j}

(***************************************************************************)
(* app.js: the stepper.  applyStepsUpTo replays currentSteps[0..idx] from  *)
(* scratch; view is what it hands to the renderer.                         *)
(***************************************************************************)
NoView == [idx |-> -1, pushedEdges |-> {}, visitedNodes |-> {}, aps |-> <<>>,
           bridges |-> <<>>, formedComps |-> <<>>]

replayStep(v, s) ==
  IF s.type = "visit" THEN [v EXCEPT !.visitedNodes = @ \cup {s.u}]
  ELSE IF s.type = "pushEdge" THEN [v EXCEPT !.pushedEdges = @ \cup {edgeKey(s.u, s.v)}]
  ELSE IF s.type = "updateLow" THEN v
  ELSE IF s.type = "markAP" THEN [v EXCEPT !.aps = SetAdd(@, s.u)]
  ELSE IF s.type = "markBridge" THEN [v EXCEPT !.bridges = Append(@, <<s.u, s.v>>)]
  ELSE IF s.type = "popComponent"
  THEN [v EXCEPT !.formedComps =
          Append(@, [idx |-> s.compIndex,
                     edges |-> [j \in 1..Len(s.edges) |-> edgeKey(s.edges[j][1], s.edges[j][2])]])]
  ELSE v

\* for (let i = 0; i <= idx; i++) { const s = currentSteps[i]; if (!s) continue; ... }
RECURSIVE replay(_, _, _, _)
replay(steps, i, idx, v) ==
  IF i > idx THEN v
  ELSE replay(steps, i + 1, idx,
              IF i + 1 \in 1..Len(steps) THEN replayStep(v, steps[i + 1]) ELSE v)

applyStepsUpTo(steps, idx) == replay(steps, 0, idx, [NoView EXCEPT !.idx = idx])

(* ---------------- state and actions ---------------- *)
NoRet == [threw |-> FALSE, val |-> Undefined]

InitApp ==
  /\ op = "new"
  /\ ret = NoRet
  /\ currentSteps = <<>>
  /\ currentResult = Null
  /\ stepIndex = -1
  /\ playInterval = 0
  /\ timers = {}
  /\ view = NoView
  /\ traceStates = <<>>
  /\ selected = {}
  /\ quiet = FALSE

\* new Graph()
Init == graph = NewGraph /\ InitApp

StepperUnchanged ==
  UNCHANGED <<currentSteps, currentResult, stepIndex, playInterval, timers, view, traceStates>>

AppUnchanged == StepperUnchanged /\ UNCHANGED <<selected, quiet>>

Call(name, r) == op' = name /\ graph' = r.g /\ ret' = r.ret /\ AppUnchanged

Fits(g) == Len(g.nodes) <= MaxNodes /\ Len(g.edgeMap) <= MaxEdges /\ g.nextId <= MaxId + 1

AllKeys == {"-", ">"} \X IdRange \X IdRange

AddNode == Fits(addNode(graph).g) /\ Call("addNode", addNode(graph))

AddEdge(a, b, d) == Fits(addEdge(graph, a, b, d).g) /\ Call("addEdge", addEdge(graph, a, b, d))

DeleteEdge(a, b, d) == Call("deleteEdge", deleteEdge(graph, a, b, d))

DeleteEdgeByKey(key) == Call("deleteEdgeByKey", deleteEdgeByKey(graph, key))

DeleteNode(id) == Call("deleteNode", deleteNode(graph, id))

RenameNode(oldId, newId) == Call("renameNode", renameNode(graph, oldId, newId))

Clear == Call("clear", clear(graph))

\* an analyzer that uses the edge collection up while it runs
Analyze_consuming == Call("analyze", Out([graph EXCEPT !.edgeMap = <<>>], analyze(graph)))

Analyze == Call("analyze", Out(graph, analyze(graph)))

AnalyzeWithSteps == Call("analyzeWithSteps", Out(graph, analyzeWithSteps(graph)))

\* The Graph class driven through its methods, from new Graph()
Next ==
  \/ AddNode
  \/ \E a \in NodeIds(graph), b \in NodeIds(graph), d \in BOOLEAN : AddEdge(a, b, d)
  \/ \E a \in IdRange, b \in IdRange, d \in BOOLEAN : DeleteEdge(a, b, d)
  \/ \E key \in AllKeys : DeleteEdgeByKey(key)
  \/ \E id \in IdRange : DeleteNode(id)
  \/ \E oldId \in IdRange, newId \in IdRange : RenameNode(oldId, newId)
  \/ Clear
  \/ Analyze
  \/ AnalyzeWithSteps

Spec == Init /\ [][Next]_vars

\* The mutations alone, renameNode called on nodes of the graph only
NextKnown ==
  \/ AddNode
  \/ \E a \in NodeIds(graph), b \in NodeIds(graph), d \in BOOLEAN : AddEdge(a, b, d)
  \/ \E a \in IdRange, b \in IdRange, d \in BOOLEAN : DeleteEdge(a, b, d)
  \/ \E key \in AllKeys : DeleteEdgeByKey(key)
  \/ \E id \in IdRange : DeleteNode(id)
  \/ \E oldId \in NodeIds(graph), newId \in IdRange : RenameNode(oldId, newId)
  \/ Clear

SpecKnown == Init /\ [][NextKnown]_vars

\* Graph.fromJSON(graph.toJSON()), the graph the import path would install
RoundTrip == Call("fromJSON", Out(graph, fromJSON(toJSON(graph))))

\* The mutations, and the export / import round trip of the graph they built
NextJSON == NextKnown \/ RoundTrip

SpecJSON == Init /\ [][NextJSON]_vars

(***************************************************************************)
(* The analyzer on the graphs Graph.randomGraph builds (the graph the app  *)
(* starts with, app.js line 427, for n up to MaxRandN).                    *)
(***************************************************************************)
InitRandom ==
  /\ \E n \in 0..MaxRandN : \E chosen \in SUBSET Pairs(n) : graph = randomGraph(n, chosen)
  /\ InitApp

NextTarjan == Analyze \/ AnalyzeWithSteps

SpecTarjan == InitRandom /\ [][NextTarjan]_vars

(***************************************************************************)
(* app.js: Run Analysis, the stepper buttons and the playback timer, on    *)
(* the graph the app starts with (n up to MaxPlayN).                       *)
(***************************************************************************)
AppState ==
  [currentSteps |-> currentSteps, stepIndex |-> stepIndex,
   playInterval |-> playInterval, timers |-> timers, view |-> view]

SetApp(a) ==
  /\ currentSteps' = a.currentSteps
  /\ stepIndex' = a.stepIndex
  /\ playInterval' = a.playInterval
  /\ timers' = a.timers
  /\ view' = a.view

\* setInterval returns an id no live timer has
FreshTimer(a) == CHOOSE t \in 1..(Cardinality(a.timers) + 1) : t \notin a.timers

stepNext(a) ==
  IF a.stepIndex >= Len(a.currentSteps) - 1 THEN [a |-> a, more |-> FALSE]
  ELSE [a |-> [a EXCEPT !.stepIndex = a.stepIndex + 1,
                        !.view = applyStepsUpTo(a.currentSteps, a.stepIndex + 1)],
        more |-> a.stepIndex + 1 < Len(a.currentSteps) - 1]

stepPrev(a) ==
  IF a.stepIndex <= -1 THEN a
  ELSE [a EXCEPT !.stepIndex = a.stepIndex - 1,
                 !.view = applyStepsUpTo(a.currentSteps, a.stepIndex - 1)]

stopPlayback(a) ==
  IF a.playInterval # 0
  THEN [a EXCEPT !.timers = @ \ {a.playInterval}, !.playInterval = 0]
  ELSE a

startPlayback(a) ==
  IF Len(a.currentSteps) = 0 THEN a
  ELSE LET a1 == IF a.stepIndex >= Len(a.currentSteps) - 1
                 THEN [a EXCEPT !.stepIndex = -1] ELSE a
       IN [a1 EXCEPT !.playInterval = FreshTimer(a), !.timers = @ \cup {FreshTimer(a)}]

RunBtn(stepMode) ==
  LET r == analyzeWithSteps(graph)
      a1 == [AppState EXCEPT !.currentSteps = r.steps, !.stepIndex = -1]
      a2 == IF stepMode /\ Len(r.steps) > 0 THEN startPlayback(a1) ELSE a1
  IN /\ Cardinality(a2.timers) <= MaxTimers
     /\ SetApp(a2)
     /\ currentResult' = r.result
     /\ traceStates' = TraversalWithSteps(graph).states
     /\ ret' = [threw |-> FALSE, val |-> IF stepMode THEN r.result ELSE analyze(graph)]
     /\ op' = "runBtn"
     /\ UNCHANGED <<graph, selected, quiet>>

Stepper(name, a) ==
  /\ op' = name
  /\ SetApp(a)
  /\ ret' = NoRet
  /\ UNCHANGED <<graph, currentResult, traceStates, selected, quiet>>

NextBtn == Stepper("nextBtn", stepNext(AppState).a)

PrevBtn == Stepper("prevBtn", stepPrev(AppState))

StepEntryClick(i) ==
  Stepper("stepEntry", [AppState EXCEPT !.stepIndex = i,
                                        !.view = applyStepsUpTo(currentSteps, i)])

PlayBtn ==
  Stepper("playBtn",
          IF Len(currentSteps) = 0 THEN AppState
          ELSE IF playInterval # 0 THEN stopPlayback(AppState)
          ELSE startPlayback(AppState))

SpeedInput ==
  Stepper("speed",
          IF playInterval # 0 THEN startPlayback(stopPlayback(AppState)) ELSE AppState)

Tick(t) ==
  LET r == stepNext(AppState)
  IN Stepper("tick", IF r.more THEN r.a ELSE stopPlayback(r.a))

InitStepper ==
  /\ \E n \in 0..MaxPlayN : \E chosen \in SUBSET Pairs(n) : graph = randomGraph(n, chosen)
  /\ InitApp

NextStepper ==
  \/ \E stepMode \in BOOLEAN : RunBtn(stepMode)
  \/ NextBtn
  \/ PrevBtn
  \/ \E i \in 0..(Len(currentSteps) - 1) : StepEntryClick(i)
  \/ PlayBtn
  \/ SpeedInput
  \/ \E t \in timers : Tick(t)

SpecStepper == InitStepper /\ [][NextStepper]_vars

(***************************************************************************)
(* The stepper with a user who at some moment stops giving input: from     *)
(* then on only the interval timers run.  A timer that is set and not      *)
(* cleared fires again and again, which is the fairness of SpecPlayback.   *)
(***************************************************************************)
Leave ==
  /\ ~quiet
  /\ quiet' = TRUE
  /\ UNCHANGED <<graph, op, ret, currentSteps, currentResult, stepIndex, playInterval,
                 timers, view, traceStates, selected>>

TimerFires == \E t \in timers : Tick(t)

\* what a firing timer can change
playbackVars == <<stepIndex, playInterval, timers>>

NextPlayback ==
  \/ ~quiet /\ \E stepMode \in BOOLEAN : RunBtn(stepMode)
  \/ ~quiet /\ NextBtn
  \/ ~quiet /\ PrevBtn
  \/ ~quiet /\ \E i \in 0..(Len(currentSteps) - 1) : StepEntryClick(i)
  \/ ~quiet /\ PlayBtn
  \/ ~quiet /\ SpeedInput
  \/ TimerFires
  \/ Leave

SpecPlayback == InitStepper /\ [][NextPlayback]_vars /\ WF_playbackVars(TimerFires)

(***************************************************************************)
(* app.js: the editing handlers and the selection.  The circles that can   *)
(* be clicked are those of the last render, which every handler that       *)
(* changes the graph calls: the nodes of the current graph.                *)
(***************************************************************************)
TheSelected == CHOOSE x \in selected : TRUE

UICall(name, r, sel) ==
  /\ op' = name
  /\ graph' = r.g
  /\ ret' = r.ret
  /\ selected' = sel
  /\ StepperUnchanged
  /\ UNCHANGED quiet

\* click on the circle of node n (lines 75-94); when addEdge throws, the
\* statements after the call, selected = null among them, do not run
NodeClick(n) ==
  IF selected = {} THEN UICall("nodeClick", Out(graph, Undefined), {n})
  ELSE IF selected = {n} THEN UICall("nodeClick", Out(graph, Undefined), {})
  ELSE LET r == addEdge(graph, TheSelected, n, FALSE)
       IN /\ Len(r.g.edgeMap) <= MaxEdges
          /\ UICall("nodeClick", r, IF r.ret.threw THEN selected ELSE {})

\* click on the canvas: graph.addNode(x, y)
SvgClick ==
  /\ Len(graph.nodes) < MaxNodes
  /\ graph.nextId <= MaxId
  /\ UICall("svgClick", addNode(graph), selected)

ClearBtn == UICall("clearBtn", clear(graph), {})

\* the Delete button and the Delete / Backspace key, confirmed
DeleteBtn ==
  /\ selected # {}
  /\ UICall("deleteBtn", deleteNode(graph, TheSelected), {})

\* the Rename button with an integer typed into the prompt
RenameBtn(newId) ==
  /\ selected # {}
  /\ LET r == renameNode(graph, TheSelected, newId)
     IN UICall("renameBtn", r, IF r.ret.val = FALSE THEN selected ELSE {newId})

\* n = parseInt(numNodesInput.value) || 8; graph = Graph.randomGraph(n, 0.28);
\* selected is left as it is
RandomBtn(n, chosen) ==
  UICall("randomBtn", Out(randomGraph(n, chosen), Undefined), selected)

\* graph = Graph.fromJSON(text of the file); selected is left as it is
ImportFile(data) ==
  UICall("importFile", Out(fromJSON(data), Undefined), selected)

\* the files Export writes
ExportedFiles ==
  {toJSON(randomGraph(n, chosen)) : <<n, chosen>> \in
     UNION {{<<n, chosen>> : chosen \in SUBSET Pairs(n)} : n \in 0..MaxUIN}}

NextUI ==
  \/ \E n \in NodeIds(graph) : NodeClick(n)
  \/ SvgClick
  \/ ClearBtn
  \/ DeleteBtn
  \/ \E newId \in IdRange : RenameBtn(newId)
  \/ \E n \in 1..MaxUIN : \E chosen \in SUBSET Pairs(n) : RandomBtn(n, chosen)
  \/ \E data \in ExportedFiles : ImportFile(data)

\* the initial sample graph, for n up to MaxUIN
InitUI ==
  /\ \E n \in 0..MaxUIN : \E chosen \in SUBSET Pairs(n) : graph = randomGraph(n, chosen)
  /\ InitApp

SpecUI == InitUI /\ [][NextUI]_vars

(***************************************************************************)
(* Graph theory the claims are measured against, over the node set and     *)
(* the edge collection (each edge the unordered pair of its endpoints).    *)
(***************************************************************************)
EdgePairs(g) == {{e.a, e.b} : e \in Range(g.edgeMap)}

RECURSIVE ReachFrom(_, _, _)
ReachFrom(V, E, S) ==
  LET T == S \cup {y \in V : \E x \in S : {x, y} \in E}
  IN IF T = S THEN S ELSE ReachFrom(V, E, T)

NumComponents(V, E) == Cardinality({ReachFrom(V, E, {x}) : x \in V})

CutVertices(g) ==
  LET V == NodeIds(g)
      E == EdgePairs(g)
  IN {x \in V : NumComponents(V \ {x}, {e \in E : x \notin e}) > NumComponents(V, E)}

CutEdges(g) ==
  LET V == NodeIds(g)
      E == EdgePairs(g)
  IN {e \in E : NumComponents(V, E \ {e}) > NumComponents(V, E)}

\* the simple cycles of the graph, each as the set of its edges
SimpleCycles(g) ==
  LET V == NodeIds(g)
      E == EdgePairs(g)
      Cyc(k) == {p \in [1..k -> V] :
                   /\ \A i \in 1..k, j \in 1..k : i # j => p[i] # p[j]
                   /\ \A i \in 1..(k - 1) : {p[i], p[i + 1]} \in E
                   /\ {p[k], p[1]} \in E}
      EdgesOf(p, k) == {{p[i], p[i + 1]} : i \in 1..(k - 1)} \cup {{p[k], p[1]}}
  IN UNION {{EdgesOf(p, k) : p \in Cyc(k)} : k \in 3..Cardinality(V)}

\* the blocks: the classes of "the same edge, or on a common simple cycle"
Blocks(g) ==
  LET E == EdgePairs(g)
      C == SimpleCycles(g)
  IN {{f \in E : f = e \/ \E c \in C : e \in c /\ f \in c} : e \in E}

NonIsolated(g) == {x \in NodeIds(g) : \E e \in EdgePairs(g) : x \in e}

CompEdgeSet(c) == {{c.edges[j][1], c.edges[j][2]} : j \in 1..Len(c.edges)}

\* how often the unordered pair e occurs in the components' edge lists
OccIdx(components) ==
  UNION {{<<c, j>> : j \in 1..Len(components[c].edges)} : c \in 1..Len(components)}

Occurrences(components, e) ==
  Cardinality({cj \in OccIdx(components) :
                 {components[cj[1]].edges[cj[2]][1], components[cj[1]].edges[cj[2]][2]} = e})

\* an edge over the unordered pair {a, b} is in the edge collection
HasEdgeOver(g, a, b) == \E e \in Range(g.edgeMap) : {e.a, e.b} = {a, b}

InAdj(g, a, b) == a \in DOMAIN g.adj /\ SetHas(g.adj[a], b)

(***************************************************************************)
(*                               Claims                                    *)
(***************************************************************************)

(* C1: analyze() and the result half of analyzeWithSteps(), run on the     *)
(* same unmodified graph, return identical Results (articulation points,   *)
(* bridges in order, components in order with their edge and vertex        *)
(* lists, edge-to-component map).                                          *)
C1_SameResult ==
  /\ op = "analyze" => ret.val = analyzeWithSteps(graph).result
  /\ op = "analyzeWithSteps" => ret.val.result = analyze(graph)

C1_Witness ==
  /\ op = "analyzeWithSteps"
  /\ Len(ret.val.result.articulationPoints) >= 1
  /\ Len(ret.val.result.bridges) >= 1
  /\ \E c \in 1..Len(ret.val.result.components) :
       Len(ret.val.result.components[c].edges) >= 3

(* C2: the articulation points analyze() returns are exactly the nodes     *)
(* whose removal, with their incident edges, increases the number of       *)
(* connected components.                                                   *)
C2_ArticulationPoints ==
  op = "analyze" => Range(ret.val.articulationPoints) = CutVertices(graph)

(* C3: the bridges list of analyze() holds, each exactly once as an        *)
(* unordered pair, precisely the edges whose removal increases the number  *)
(* of connected components.                                                *)
C3_Bridges ==
  op = "analyze" =>
    LET b == ret.val.bridges
    IN /\ {{b[i][1], b[i][2]} : i \in 1..Len(b)} = CutEdges(graph)
       /\ \A i \in 1..Len(b), j \in 1..Len(b) :
            i # j => {b[i][1], b[i][2]} # {b[j][1], b[j][2]}

(* C4: every edge of the graph, as an unordered pair, occurs in the edge   *)
(* list of exactly one component returned by analyze(), and once.          *)
C4_EdgeInOneComponent ==
  op = "analyze" =>
    \A e \in EdgePairs(graph) : Occurrences(ret.val.components, e) = 1

(* C5: the components of analyze() are exactly the vertex-biconnected      *)
(* blocks: two distinct edges are in the same component if and only if     *)
(* they lie on a common simple cycle.                                      *)
C5_ComponentsAreBlocks ==
  op = "analyze" =>
    {CompEdgeSet(ret.val.components[c]) : c \in 1..Len(ret.val.components)} = Blocks(graph)

(* C6: the union of the verts lists of the components of analyze() is the  *)
(* set of nodes with at least one incident edge.                           *)
C6_VertsAreNonIsolated ==
  op = "analyze" =>
    UNION {Range(ret.val.components[c].verts) : c \in 1..Len(ret.val.components)}
      = NonIsolated(graph)

(* C7: add_edge, with either directed flag, returns false and changes      *)
(* neither the edge collection nor the adjacency index whenever an edge    *)
(* over the same unordered pair already exists, whatever flag or endpoint  *)
(* order it was added with.                                                *)
C7_DuplicateRejected ==
  [][\A a \in NodeIds(graph), b \in NodeIds(graph), d \in BOOLEAN :
       (AddEdge(a, b, d) /\ HasEdgeOver(graph, a, b))
         => (ret'.val = FALSE /\ graph' = graph)]_vars

(* C8: edge collection and adjacency index are in lock-step: an edge over  *)
(* {a,b} is in the edge collection iff b is in adjacency[a] and a is in    *)
(* adjacency[b].                                                           *)
C8_LockStep ==
  \A a \in IdRange, b \in IdRange :
    HasEdgeOver(graph, a, b) <=> (InAdj(graph, a, b) /\ InAdj(graph, b, a))

(* C9: delete_edge, delete_edge_by_key and rename_node on a target that    *)
(* does not exist (a key not in the edge collection, an old id that is no  *)
(* node) return false and leave nodes, edges, adjacency and id allocator   *)
(* unchanged.                                                              *)
C9_UnknownTarget ==
  [][/\ \A a \in IdRange, b \in IdRange, d \in BOOLEAN :
          (DeleteEdge(a, b, d)
             /\ ~MapHas(graph.edgeMap, IF d THEN dirKey(a, b) ELSE undirKey(a, b)))
            => (ret'.val = FALSE /\ graph' = graph)
     /\ \A key \in AllKeys :
          (DeleteEdgeByKey(key) /\ ~MapHas(graph.edgeMap, key))
            => (ret'.val = FALSE /\ graph' = graph)
     /\ \A oldId \in IdRange, newId \in IdRange :
          (RenameNode(oldId, newId) /\ oldId \notin NodeIds(graph))
            => (ret'.val = FALSE /\ graph' = graph)]_vars

StackKeys(stack) == {edgeKey(stack[i][1], stack[i][2]) : i \in 1..Len(stack)}

(* C10: replaying the trace to any prefix index i with applyStepsUpTo      *)
(* yields a visited-node set equal to the set of nodes with a discovery    *)
(* time, and a pending-edge set (pushedEdges) equal to the set of edges on *)
(* the analyzer's edge stack, at the moment the i-th event was emitted;    *)
(* edges already in a finalized component are not in the pending set.      *)
C10_ReplayFaithful ==
  (view.idx >= 0 /\ view.idx < Len(traceStates)) =>
    /\ view.visitedNodes = traceStates[view.idx + 1].visited
    /\ view.pushedEdges = StackKeys(traceStates[view.idx + 1].edgeStack)


(* C11: in every state reached by add_node, add_edge between existing      *)
(* nodes, delete_edge, delete_edge_by_key, delete_node, rename_node and    *)
(* clear, adjacency is symmetric: b is in adjacency[a] if and only if a is *)
(* in adjacency[b].                                                        *)
C11_AdjSymmetric ==
  \A a \in IdRange, b \in IdRange : InAdj(graph, a, b) <=> InAdj(graph, b, a)

\* a renamed node that kept its neighbours, one edge over it added directed
C11_Witness ==
  /\ op = "renameNode"
  /\ ret.val = TRUE
  /\ \E a \in NodeIds(graph), b \in NodeIds(graph) :
       /\ InAdj(graph, a, b) /\ InAdj(graph, b, a)
       /\ a > b /\ a >= Len(graph.nodes)
       /\ \E e \in Range(graph.edgeMap) : e.directed /\ {e.a, e.b} = {a, b}


\* the ids the edge collection and the adjacency index mention
Mentioned(g) ==
  UNION {{e.a, e.b} : e \in Range(g.edgeMap)}
    \cup DOMAIN g.adj
    \cup UNION {Range(g.adj[k]) : k \in DOMAIN g.adj}

(* C12: after every completed mutation in a sequence of add_node, add_edge *)
(* between existing nodes, delete_edge, delete_edge_by_key, delete_node,   *)
(* rename_node of an existing node and clear, every id that is an endpoint *)
(* in the edge collection or a key or member of the adjacency index is the *)
(* id of a node of the node set; after delete_node(id) no edge and no      *)
(* adjacency set mentions id.                                              *)
C12_NoDangling ==
  /\ [](Mentioned(graph) \subseteq NodeIds(graph))
  /\ [][\A id \in IdRange :
          DeleteNode(id) => id \notin (Mentioned(graph') \cup NodeIds(graph'))]_vars

\* a node was deleted and what is left still has an edge and a renamed node
C12_Witness ==
  /\ op = "deleteNode"
  /\ Len(graph.edgeMap) >= 1
  /\ \E x \in NodeIds(graph) : x < 0 /\ x \in Mentioned(graph)


(* C13: rename_node(old_id, new_id) where new_id is the id of an existing  *)
(* node different from old_id returns false and leaves the graph           *)
(* completely unchanged: node ids, edge collection, adjacency index and id *)
(* allocator.                                                              *)
C13_RenameConflict ==
  [][op' = "renameNode" =>
       \A oldId \in IdRange, newId \in IdRange :
         (newId \in NodeIds(graph) /\ oldId # newId /\ RenameNode(oldId, newId))
           => (ret'.val = FALSE /\ graph' = graph)]_vars

\* a rename refused on a graph that has an edge
C13_Witness ==
  /\ op = "renameNode"
  /\ ret.val = FALSE
  /\ Len(graph.nodes) >= 2
  /\ Len(graph.edgeMap) >= 1


(* C14: in every state reached by add_node, delete_node, rename_node and   *)
(* clear, node ids are pairwise distinct and the id allocator is strictly  *)
(* greater than every node id, so add_node returns an id that no existing  *)
(* node has, also an id a node was given by rename_node.                   *)
C14_FreshIds ==
  /\ [](/\ \A i \in 1..Len(graph.nodes), j \in 1..Len(graph.nodes) :
             i # j => graph.nodes[i] # graph.nodes[j]
        /\ \A x \in NodeIds(graph) : x < graph.nextId)
  /\ [][op' = "addNode" => (ret'.val \notin NodeIds(graph) /\ ret'.val \in NodeIds(graph'))]_vars

\* add_node after a node was renamed to an id ahead of the allocator
C14_Witness ==
  /\ op = "addNode"
  /\ Len(graph.nodes) = 2
  /\ ret.val = MaxId
  /\ graph.nodes[1] = MaxId - 1


(* C15: add_edge(a, a) returns false for every a and leaves the node set,  *)
(* the edge collection, the adjacency index and the id allocator           *)
(* unchanged, whatever the directed flag.                                  *)
C15_SelfLoopRejected ==
  /\ [][op' = "addEdge" =>
          \A a \in NodeIds(graph), d \in BOOLEAN :
            AddEdge(a, a, d) => (ret'.val = FALSE /\ graph' = graph)]_vars
  /\ [](\A a \in IdRange, d \in BOOLEAN : addEdge(graph, a, a, d) = Out(graph, FALSE))

\* add_edge refused on a graph that has no edge at all: only a self-loop is
C15_Witness ==
  /\ op = "addEdge"
  /\ ret.val = FALSE
  /\ Len(graph.edgeMap) = 0
  /\ Len(graph.nodes) >= 1


WellFormed(g) ==
  /\ \A i \in 1..Len(g.nodes), j \in 1..Len(g.nodes) : i # j => g.nodes[i] # g.nodes[j]
  /\ DOMAIN g.adj = NodeIds(g)
  /\ Mentioned(g) \subseteq NodeIds(g)
  /\ \A a \in NodeIds(g), b \in NodeIds(g) : InAdj(g, a, b) <=> InAdj(g, b, a)
  /\ \A a \in NodeIds(g), b \in NodeIds(g) :
       HasEdgeOver(g, a, b) <=> (InAdj(g, a, b) /\ InAdj(g, b, a))

\* an edge between a and b with directed flag d is in the edge collection
HasEdgeFlag(g, a, b, d) ==
  \E e \in Range(g.edgeMap) : e.directed = d /\ {e.a, e.b} = {a, b}

\* the renumbering fromJSON makes: the node at place i of the node list gets i - 1
Renumber(g, x) == (CHOOSE i \in 1..Len(g.nodes) : g.nodes[i] = x) - 1

(* C17: round trip.  For every well-formed graph g, fromJSON(toJSON(g))    *)
(* has the same number of nodes, renumbered 0..n-1 in node-list order by a *)
(* mapping m, contains an edge between m(a) and m(b) with directed flag d  *)
(* if and only if g contains an edge between a and b with flag d, and its  *)
(* adjacency matches g's under m.                                          *)
C17_RoundTrip ==
  (op = "fromJSON" /\ WellFormed(graph)) =>
    LET g == graph
        h == ret.val
    IN /\ h.nodes = [i \in 1..Len(g.nodes) |-> i - 1]
       /\ Len(h.edgeMap) = Len(g.edgeMap)
       /\ \A a \in NodeIds(g), b \in NodeIds(g), d \in BOOLEAN :
            HasEdgeFlag(h, Renumber(g, a), Renumber(g, b), d) <=> HasEdgeFlag(g, a, b, d)
       /\ DOMAIN h.adj = NodeIds(h)
       /\ \A a \in NodeIds(g) :
            Range(h.adj[Renumber(g, a)]) = {Renumber(g, x) : x \in Range(g.adj[a])}

\* a round trip that renumbers: a renamed node, a directed and an undirected edge
C17_Witness ==
  /\ op = "fromJSON"
  /\ WellFormed(graph)
  /\ \E x \in NodeIds(graph) : Renumber(graph, x) # x
  /\ \E e \in Range(graph.edgeMap) : e.directed
  /\ \E e \in Range(graph.edgeMap) : ~e.directed


\* the edges with an edge-pushed event among steps[1..i], in the order pushed
PushedIn(steps, i) ==
  LET pushes == SelectSeq(SubSeq(steps, 1, i), LAMBDA t : t.type = "pushEdge")
  IN [j \in 1..Len(pushes) |-> <<pushes[j].u, pushes[j].v>>]

\* the places among steps[1..i] of the component-finalized events listing edge e
FinalizedAt(steps, i, e) ==
  {k \in 1..i : steps[k].type = "popComponent" /\ e \in Range(steps[k].edges)}

\* pushed in the prefix and not yet listed by a component-finalized event of it
PendingIn(steps, i) ==
  SelectSeq(PushedIn(steps, i), LAMBDA e : FinalizedAt(steps, i, e) = {})

(* C18: at every prefix of the trace of analyzeWithSteps(), the sequence   *)
(* of edges with an edge-pushed event in the prefix, minus the edges       *)
(* listed in the prefix's component-finalized events, equals the           *)
(* analyzer's edge stack at that moment; every pushed edge is listed in    *)
(* exactly one later component-finalized event, and at the end of the      *)
(* trace no edge is pending.                                               *)
C18_PendingIsStack ==
  op = "analyzeWithSteps" =>
    LET tr == TraversalWithSteps(graph)
        steps == ret.val.steps
        n == Len(steps)
    IN /\ Len(tr.states) = n
       /\ \A i \in 1..n : PendingIn(steps, i) = tr.states[i].edgeStack
       /\ \A j \in 1..n :
            steps[j].type = "pushEdge" =>
              /\ Cardinality(FinalizedAt(steps, n, <<steps[j].u, steps[j].v>>)) = 1
              /\ \A k \in FinalizedAt(steps, n, <<steps[j].u, steps[j].v>>) : k > j
       /\ PendingIn(steps, n) = <<>>

\* a trace with a back edge, two finalized components, and a prefix at which
\* one component is finalized while two edges are pending
C18_Witness ==
  /\ op = "analyzeWithSteps"
  /\ \E j \in 1..Len(ret.val.steps) :
       ret.val.steps[j].type = "pushEdge" /\ ret.val.steps[j].back
  /\ \E i \in 1..Len(ret.val.steps) :
       /\ Len(PendingIn(ret.val.steps, i)) >= 2
       /\ \E k \in 1..i : ret.val.steps[k].type = "popComponent"


\* the events of one type, in the order emitted
EventsOf(steps, type) == SelectSeq(steps, LAMBDA t : t.type = type)

(* C19: the complete trace determines the Result returned with it: the set *)
(* of ids in articulation-point-marked events equals articulationPoints,   *)
(* the bridge-marked events in order equal bridges, and the k-th           *)
(* component-finalized event carries compIndex k-1 with the same edges and *)
(* verts as components[k-1].                                               *)
C19_TraceDeterminesResult ==
  op = "analyzeWithSteps" =>
    LET steps == ret.val.steps
        result == ret.val.result
        aps == EventsOf(steps, "markAP")
        brs == EventsOf(steps, "markBridge")
        pops == EventsOf(steps, "popComponent")
    IN /\ {aps[k].u : k \in 1..Len(aps)} = Range(result.articulationPoints)
       /\ [k \in 1..Len(brs) |-> <<brs[k].u, brs[k].v>>] = result.bridges
       /\ Len(pops) = Len(result.components)
       /\ \A k \in 1..Len(pops) :
            /\ pops[k].compIndex = k - 1
            /\ pops[k].edges = result.components[k].edges
            /\ pops[k].verts = result.components[k].verts

\* a trace that marks an articulation point twice, a bridge, and finalizes
\* three components, one of them a cycle
C19_Witness ==
  /\ op = "analyzeWithSteps"
  /\ Len(EventsOf(ret.val.steps, "markAP")) > Len(ret.val.result.articulationPoints)
  /\ Len(EventsOf(ret.val.steps, "markBridge")) >= 1
  /\ Len(EventsOf(ret.val.steps, "popComponent")) >= 3
  /\ \E k \in 1..Len(ret.val.result.components) :
       Len(ret.val.result.components[k].edges) >= 3


(* C20: for every graph reachable through the Graph Model operations,      *)
(* analyzeWithSteps() terminates and its trace has exactly one             *)
(* node-visited event for each node of the graph, the k-th such event      *)
(* carrying disc = low = k; for the empty graph the trace is empty and the *)
(* Result has no articulation points, bridges or components.               *)
C20_OneVisitPerNode ==
  op = "analyzeWithSteps" =>
    LET visits == EventsOf(ret.val.steps, "visit")
    IN /\ Len(visits) = Len(graph.nodes)
       /\ {visits[k].u : k \in 1..Len(visits)} = NodeIds(graph)
       /\ \A k \in 1..Len(visits) : visits[k].disc = k /\ visits[k].low = k
       /\ graph.nodes = <<>> =>
            /\ ret.val.steps = <<>>
            /\ ret.val.result.articulationPoints = <<>>
            /\ ret.val.result.bridges = <<>>
            /\ ret.val.result.components = <<>>


(* C21: in every trace, each bridge-marked event for (u,v) is immediately  *)
(* followed by a component-finalized event whose edge list is exactly the  *)
(* single edge (u,v); a graph with a single edge yields bridges = [(u,v)], *)
(* no articulation points and one component.                               *)
C21_BridgeIsComponent ==
  op = "analyzeWithSteps" =>
    LET steps == ret.val.steps
        result == ret.val.result
    IN /\ \A j \in 1..Len(steps) :
            steps[j].type = "markBridge" =>
              /\ j < Len(steps)
              /\ steps[j + 1].type = "popComponent"
              /\ steps[j + 1].edges = <<(<<steps[j].u, steps[j].v>>)>>
       /\ Len(graph.edgeMap) = 1 =>
            /\ Len(result.bridges) = 1
            /\ {result.bridges[1][1], result.bridges[1][2]}
                 = {graph.edgeMap[1].a, graph.edgeMap[1].b}
            /\ result.articulationPoints = <<>>
            /\ Len(result.components) = 1
            /\ result.components[1].edges = result.bridges


\* id x after the rename of oldId to newId
Renamed(x, oldId, newId) == IF x = oldId THEN newId ELSE x

\* the bridges of a Result, each as the unordered pair of its endpoints
BridgePairs(result) ==
  {{result.bridges[i][1], result.bridges[i][2]} : i \in 1..Len(result.bridges)}

(* C22: analysis commutes with renaming.  For every graph and every        *)
(* integer new_id not in use (negative values and values above the         *)
(* allocator included), after a successful rename_node(old_id, new_id)     *)
(* analyze() returns the articulation points and bridges of the original   *)
(* graph with old_id replaced by new_id, and still places every edge in a  *)
(* component.                                                              *)
C22_RenameCommutes ==
  [][op' = "renameNode" =>
       \A oldId \in NodeIds(graph), newId \in IdRange \ NodeIds(graph) :
         RenameNode(oldId, newId) =>
           LET before == analyze(graph)
               after == analyze(graph')
           IN /\ Range(after.articulationPoints)
                   = {Renamed(x, oldId, newId) : x \in Range(before.articulationPoints)}
              /\ BridgePairs(after)
                   = {{Renamed(x, oldId, newId) : x \in b} : b \in BridgePairs(before)}
              /\ \A e \in EdgePairs(graph') : Occurrences(after.components, e) >= 1]_vars


(* C23: at most one playback interval timer is live at any time: across    *)
(* every interleaving of Run Analysis (step mode on or off), Play/Pause    *)
(* clicks, speed changes and timer ticks, startPlayback never creates a    *)
(* timer while an earlier one is uncleared, so the only timer that can     *)
(* tick is the one playInterval holds, and none after stopPlayback.        *)
C23_OneTimer ==
  /\ Cardinality(timers) <= 1
  /\ timers \subseteq {playInterval} \ {0}


(* C24: in every reachable UI state, when selected is non-null it is the   *)
(* id of a node of the current graph, across node clicks, Clear, Delete,   *)
(* Rename, Random Graph and Import; hence the node-click handler calls     *)
(* add_edge with two existing node ids only, add_edge does not throw, and  *)
(* every edge of the edge collection has both its adjacency entries.       *)
C24_SelectedIsNode ==
  /\ selected \subseteq NodeIds(graph)
  /\ op = "nodeClick" => ~ret.threw
  /\ \A e \in Range(graph.edgeMap) : InAdj(graph, e.a, e.b) /\ InAdj(graph, e.b, e.a)


(* C25: whenever the DFS call for a root returns, the edge stack is        *)
(* already empty, so the residual rule (pop all remaining edges as one     *)
(* final component after a root) never emits a component; every component  *)
(* is produced by the component-close rule inside the DFS.                 *)
C25_ResidualNeverEmits ==
  op = "analyze" =>
    LET stacks == rootReturnStacks(graph, 1, InitTraversal(graph), <<>>)
    IN \A k \in 1..Len(stacks) : stacks[k] = <<>>

\* analyze has run on a graph with several roots, a cycle and another component
C25_Witness ==
  /\ op = "analyze"
  /\ Len(rootReturnStacks(graph, 1, InitTraversal(graph), <<>>)) >= 2
  /\ Len(ret.val.components) >= 2
  /\ \E c \in 1..Len(ret.val.components) : Len(ret.val.components[c].edges) >= 3


\* the index of the last step of the prepared trace
LastIndex == Len(currentSteps) - 1

(* C26: once playback is started on a non-empty trace and no further user  *)
(* input arrives, the timer ticks advance stepIndex by one per tick until  *)
(* it equals the last index, at which point the tick clears the timer;     *)
(* stepIndex stays within -1..length-1 throughout and playback eventually  *)
(* stops, no timer live, with stepIndex at the last step.                  *)
C26_PlaybackEnds ==
  /\ [](stepIndex \in (-1)..LastIndex)
  /\ [][(op' = "tick" /\ quiet /\ playInterval # 0 /\ stepIndex < LastIndex) =>
          /\ stepIndex' = stepIndex + 1
          /\ stepIndex' = LastIndex => timers' = {}]_vars
  /\ (quiet /\ playInterval # 0)
       ~> (playInterval = 0 /\ timers = {} /\ stepIndex = LastIndex)

=============================================================================
